---- MODULE Spec2Model ----
(***************************************************************************)
(* Model of the Porkbun manager:                                           *)
(*   - BulkDNSWorker.run           (src/lib/workers/bulk_dns_worker.py)    *)
(*   - PorkbunDNS._make_request    (src/lib/porkbun_dns.py)                *)
(*   - DomainNSWorker.check_domain_ns (src/lib/workers/domain_ns_worker.py)*)
(*   - DomainNSWorker.start_check / check_all_domains (the same file)      *)
(*   - PorkbunDNS.update_nameservers, is_using_porkbun_nameservers         *)
(*   - generate_tempererror_chain  (src/lib/dns_templates.py)              *)
(* Python's None is modelled as the empty sequence <<>>, an Optional value *)
(* as a sequence of length 0 or 1, a missing / falsy record id as 0.       *)
(***************************************************************************)
EXTENDS Integers, Sequences, FiniteSets, TLC

VARIABLES
    profile,          \* environment of the run: "wide", "deep", "backups" or "none"
    domains,          \* BulkDNSWorker.domains
    delete_types,     \* BulkDNSWorker.delete_types
    pc,               \* position of BulkDNSWorker.run
    index,            \* loop variable of run (1-based)
    result,           \* the DomainJobResult being filled
    results,          \* run's local list of results
    records,          \* records fetched for the current domain
    delPos,           \* position of the delete loop in records
    deleted,          \* run's local list of deleted records
    record_requests,  \* template_payload.records of the current domain
    reqPos,           \* position of the create loop in record_requests
    calls,            \* log of every Gateway call, backup write and generator call
    progress,         \* emissions of the progress signal: <<current, total>>
    completed,        \* emissions of the completed signal: the lists emitted
    clock,            \* datetime.now() in whole minutes, as last read by a backup
    nsPc,             \* position of DomainNSWorker.check_domain_ns
    nsDomain,         \* its argument
    attempt,          \* loop variable of check_domain_ns (0-based)
    retry_delay,      \* its local retry_delay
    nsAttempts,       \* log of the HTTP outcomes met, one per requests.post
    sleeps,           \* log of the time.sleep calls of check_domain_ns
    nsReturn          \* Optional return value of check_domain_ns

VARIABLES
    is_checking,      \* DomainNSWorker.is_checking
    credentials,      \* whether api_key and api_secret of the worker are set
    cache,            \* config/ns_check_cache.json, as load_config reads it
    auPc,             \* per calling thread: position in start_check / check_all_domains
    auArgs,           \* per calling thread: the domains argument
    auLocals,         \* per calling thread: locals of check_all_domains, and the
                      \* results future.result() gave so far (checked)
    emitted,          \* per calling thread: the signals it emitted, in order
    saves             \* log of the save_config calls: thread and outcome

VARIABLES
    gwPc,             \* position of the PorkbunDNS call under study
    nameservers,      \* its nameservers argument: a list of strings
    gwRequests,       \* the requests it handed to _make_request
    gwResult,         \* how it ended: the operation, raised or returned, the value
    tplPc,            \* position of generate_tempererror_chain
    tplArgs,          \* its arguments: domain, chain_depth, final_content
    random_labels,    \* its local random_labels
    tplResult         \* Optional TemplateResult it returned

bulkVars == <<profile, domains, delete_types, pc, index, result, results, records,
              delPos, deleted, record_requests, reqPos, calls, progress, completed,
              clock>>
nsVars == <<nsPc, nsDomain, attempt, retry_delay, nsAttempts, sleeps, nsReturn>>
auVars == <<is_checking, credentials, cache, auPc, auArgs, auLocals, emitted, saves>>
gwVars == <<gwPc, nameservers, gwRequests, gwResult>>
tplVars == <<tplPc, tplArgs, random_labels, tplResult>>
vars == <<bulkVars, nsVars, auVars, gwVars, tplVars>>
\* what the actions of one component leave alone
notBulk == <<nsVars, auVars, gwVars, tplVars>>
notNS == <<bulkVars, auVars, gwVars, tplVars>>
notAudit == <<bulkVars, nsVars, gwVars, tplVars>>
notGateway == <<bulkVars, nsVars, auVars, tplVars>>
notTemplate == <<bulkVars, nsVars, auVars, gwVars>>

(*************************** bounds of the model ***************************)
MaxDomains == 3      \* longest domain list of a wide run
MaxRecords == 2      \* most records in a fetched zone (deep run)
MaxTemplate == 2     \* most records a generator yields (deep run)
MaxAudit == 3        \* longest domain list of an audit run
BatchSize == 2       \* DomainNSWorker.batch_size of the audited worker
MaxNsList == 3       \* longest freely composed nameservers argument
MaxDepth == 3        \* largest chain_depth given to the template generator
MaxClauses == 2      \* most clauses in a message of the vendor

(***************************** small helpers *******************************)
None == <<>>
Max(a, b) == IF a >= b THEN a ELSE b
SeqsUpTo(S, n) == UNION {[1..k -> S] : k \in 0..n}
Last(s) == s[Len(s)]
RECURSIVE SelectIdx(_, _)
SelectIdx(s, i) == IF s = <<>> THEN <<>>
                   ELSE IF Head(s).idx = i THEN <<Head(s)>> \o SelectIdx(Tail(s), i)
                   ELSE SelectIdx(Tail(s), i)

\* the threads that may call start_check on the one DomainNSWorker
Threads == {1, 2}
\* no audit in this behaviour
AuditOff ==
    /\ is_checking = FALSE
    /\ credentials = FALSE
    /\ cache = <<>>
    /\ auPc = [t \in Threads |-> "off"]
    /\ auArgs = [t \in Threads |-> <<>>]
    /\ auLocals = [t \in Threads |-> <<>>]
    /\ emitted = [t \in Threads |-> <<>>]
    /\ saves = <<>>

\* no PorkbunDNS call under study in this behaviour
GatewayOff ==
    /\ gwPc = "off"
    /\ nameservers = <<>>
    /\ gwRequests = <<>>
    /\ gwResult = <<>>
\* no template generation in this behaviour
TemplateOff ==
    /\ tplPc = "off"
    /\ tplArgs = <<>>
    /\ random_labels = <<>>
    /\ tplResult = <<>>

(******************************* inputs ************************************)
DomainNames == <<"a.com", "b.com">>
\* the i-th domain of an input list; the names repeat, so a list of three
\* holds the same domain twice
DomainAt(i) == DomainNames[((i - 1) % Len(DomainNames)) + 1]
DomainList(n) == [i \in 1..n |-> DomainAt(i)]

\* an existing DNS record as /dns/retrieve returns it
RecordKinds == {"TXT", "TXT_NOID", "A"}
ExistingRecord(k, kind) ==
    [id |-> IF kind = "TXT_NOID" THEN 0 ELSE k,
     type |-> IF kind = "A" THEN "A" ELSE "TXT",
     name |-> IF k = 1 THEN "_spf" ELSE "www",
     content |-> "old"]
Zone(kinds) == [k \in 1..Len(kinds) |-> ExistingRecord(k, kinds[k])]
Zones == IF profile = "deep"
         THEN {Zone(ks) : ks \in SeqsUpTo(RecordKinds, MaxRecords)}
         ELSE {Zone(ks) : ks \in SeqsUpTo({"TXT", "A"}, 1)}

\* a record descriptor as a generator yields it; its "ttl" key may be missing
\* (None) or hold a number of seconds
TtlChoices == {None, <<300>>, <<3600>>}
TemplateRecord(j, t) ==
    [type |-> "TXT", name |-> IF j = 1 THEN "*" ELSE "", content |-> "v=spf1", ttl |-> t]
Templates == IF profile = "deep"
             THEN {[j \in 1..Len(ts) |-> TemplateRecord(j, ts[j])] :
                      ts \in SeqsUpTo(TtlChoices, MaxTemplate)}
             ELSE {[j \in 1..Len(ts) |-> TemplateRecord(j, ts[j])] :
                      ts \in SeqsUpTo({<<300>>}, 1)}
\* what a call of self.generator(domain) can do: raise, or return a TemplateResult
GeneratorOutcomes ==
    {[raised |-> TRUE, records |-> <<>>, metadata |-> ""]}
    \cup {[raised |-> FALSE, records |-> t, metadata |-> "template"] : t \in Templates}

(************************* PorkbunDNS._make_request ************************)
\* what the vendor API can answer to one HTTP request
Transient == {"HTTP503", "TIMEOUT"}
AllKinds == {"SUCCESS", "NONSUCCESS", "API_ERROR"} \cup Transient
Kinds == IF profile = "deep" THEN AllKinds ELSE {"SUCCESS", "API_ERROR"}

\* mutant: a transient answer is retried up to three requests
HttpAttemptsRetrying(kind) == IF kind \in Transient THEN 3 ELSE 1
\* the number of HTTP requests one _make_request call issues: the single
\* session.request of the try block, whatever the answer
HttpAttempts(kind) == 1
\* the outcome of one _make_request call that met answer `kind`
MakeRequest(kind) ==
    CASE kind = "SUCCESS" ->
           [raised |-> FALSE, status |-> "SUCCESS", error |-> "", attempts |-> HttpAttempts(kind)]
      [] kind = "NONSUCCESS" ->   \* JSON whose status is neither ERROR nor SUCCESS
           [raised |-> FALSE, status |-> "", error |-> "", attempts |-> HttpAttempts(kind)]
      [] kind = "API_ERROR" ->    \* JSON with status ERROR
           [raised |-> TRUE, status |-> "ERROR", error |-> "API error",
            attempts |-> HttpAttempts(kind)]
      [] OTHER ->                 \* a RequestException: timeout, HTTP 503 without JSON
           [raised |-> TRUE, status |-> "", error |-> "Request failed",
            attempts |-> HttpAttempts(kind)]

(***************************** BulkDNSWorker *******************************)
NewResult(d) ==
    [domain |-> d, success |-> FALSE, created_records |-> <<>>, errors |-> <<>>,
     metadata |-> "", backup_path |-> None, deleted_records |-> <<>>]
\* the minutes datetime.now() can fall in during a run; only the "backups"
\* environment lets a minute pass
Minutes == IF profile = "backups" THEN {0, 1} ELSE {0}
\* lines 60-61: backup_dir / "<YYYYmmdd-HHMM>_<domain>.log"
BackupPath(timestamp, d) == <<"backups", timestamp, d>>
MinTTL == 600
DefaultTtl == 600
\* line 118: request.get("ttl", 600)
GetTtl(request) == IF request.ttl = None THEN DefaultTtl ELSE request.ttl[1]
\* mutant: the descriptor's ttl is passed on as it is
ClampTtlVerbatim(request) == GetTtl(request)
\* line 118
ClampTtl(request) == Max(GetTtl(request), MinTTL)
\* str() of a natural number: its decimal digits
Digit(d) == <<"0", "1", "2", "3", "4", "5", "6", "7", "8", "9">>[d + 1]
RECURSIVE Str(_)
Str(n) == IF n < 10 THEN <<Digit(n)>> ELSE Str(n \div 10) \o <<Digit(n % 10)>>
\* PorkbunDNS.create_dns_record, lines 382-393: the body of the create request
CreateData(record_type, content, name, ttl) ==
    [type |-> record_type, content |-> content, ttl |-> Str(ttl),
     name |-> IF name # "" THEN <<name>> ELSE None]
CreatedSummary(request) ==
    [type |-> request.type,
     name |-> IF request.name = "" THEN "@" ELSE request.name,
     content |-> request.content]
DeletedSummary(existing) ==
    [id |-> existing.id, name |-> existing.name, content |-> existing.content,
     type |-> existing.type]
\* line 92-95: the record is passed to delete_dns_record
Deletable(existing) == existing.type \in delete_types /\ existing.id # 0
\* mutant: only an exception fails the step, the status is not looked at
CallFailedOnlyRaised(r) == r.raised
\* lines 97 and 128, with the exception _make_request raises: the step failed
CallFailed(r) == r.raised \/ r.status # "SUCCESS"
\* mutant: only a successful result is kept
ResultsAfterOnlySuccess(rs, r) == IF r.success THEN Append(rs, r) ELSE rs
\* line 143
ResultsAfter(rs, r) == Append(rs, r)
LogEntry(op, kind, arg, ttl, n) ==
    [idx |-> index, op |-> op, kind |-> kind, arg |-> arg, ttl |-> ttl, attempts |-> n]
total == Len(domains)

\* mutant: the try wraps the whole loop, so the first failure ends the run
ExceptEndsRun(res, err) ==
    /\ result' = [res EXCEPT !.errors = Append(@, err)]
    /\ pc' = "done"
\* the except clause of lines 140-141, then on to line 143
Except(res, err) ==
    /\ result' = [res EXCEPT !.errors = Append(@, err)]
    /\ pc' = "append"

\* lines 67-79; PorkbunDNS.__init__ (lines 72-75) only stores the keys and opens a
\* requests.Session, without I/O, so the failed signal of line 74 is never emitted
Start ==
    /\ pc = "init"
    /\ IF domains = <<>>
       THEN /\ completed' = Append(completed, <<>>)
            /\ pc' = "done"
       ELSE /\ \E mkdirOk \in BOOLEAN :          \* _ensure_backup_dir, outside any try
                 pc' = IF mkdirOk THEN "loop" ELSE "crashed"
            /\ UNCHANGED completed
    /\ UNCHANGED <<profile, clock, domains, delete_types, index, result, results, records,
                   delPos, deleted, record_requests, reqPos, calls, progress>>
    /\ UNCHANGED notBulk

\* lines 81-84
BeginDomain ==
    /\ pc = "loop"
    /\ index <= total
    /\ result' = NewResult(domains[index])
    /\ progress' = Append(progress, <<index - 1, total>>)
    /\ pc' = "fetch"
    /\ UNCHANGED <<profile, clock, domains, delete_types, index, results, records, delPos,
                   deleted, record_requests, reqPos, calls, completed>>
    /\ UNCHANGED notBulk

\* line 85: client.get_dns_records(domain)
Fetch ==
    /\ pc = "fetch"
    /\ \E kind \in Kinds, zone \in Zones :
         LET r == MakeRequest(kind) IN
         /\ calls' = Append(calls, LogEntry("retrieve", kind, 0, None, r.attempts))
         /\ IF r.raised
            THEN /\ Except(result, r.error)
                 /\ UNCHANGED records
            ELSE /\ records' = IF kind = "SUCCESS" THEN zone ELSE <<>>
                 /\ pc' = "backup"
                 /\ UNCHANGED result
    /\ UNCHANGED <<profile, clock, domains, delete_types, index, results, delPos, deleted,
                   record_requests, reqPos, progress, completed>>
    /\ UNCHANGED notBulk

\* mutant: a failed write is swallowed
WriteBackupSwallowed(writeOk) == FALSE
\* _write_backup: open() or json.dump raises when the file cannot be written
WriteBackupRaises(writeOk) == ~writeOk

\* lines 86-90: _write_backup, then the head of the delete step
WriteBackup ==
    /\ pc = "backup"
    /\ \E writeOk \in BOOLEAN, timestamp \in {m \in Minutes : m >= clock} :
         /\ clock' = timestamp
         /\ calls' = Append(calls, LogEntry("backup", IF writeOk THEN "OK" ELSE "FAIL",
                                            timestamp, None, 0))
         /\ IF ~WriteBackupRaises(writeOk)
            THEN /\ result' = [result EXCEPT
                                  !.backup_path = BackupPath(timestamp, domains[index])]
                 /\ pc' = IF delete_types # {} THEN "delete" ELSE "generate"
                 /\ delPos' = IF delete_types # {} THEN 1 ELSE delPos
                 /\ deleted' = IF delete_types # {} THEN <<>> ELSE deleted
            ELSE /\ Except(result, "backup write failed")
                 /\ UNCHANGED <<delPos, deleted>>
    /\ UNCHANGED <<profile, domains, delete_types, index, results, records,
                   record_requests, reqPos, progress, completed>>
    /\ UNCHANGED notBulk

\* lines 91-95: a record of another type, or without an id, is passed over
DeleteSkip ==
    /\ pc = "delete"
    /\ delPos <= Len(records)
    /\ ~Deletable(records[delPos])
    /\ delPos' = delPos + 1
    /\ UNCHANGED <<profile, clock, domains, delete_types, pc, index, result, results, records,
                   deleted, record_requests, reqPos, calls, progress, completed>>
    /\ UNCHANGED notBulk

\* lines 96-108: one delete_dns_record call
DeleteStep ==
    /\ pc = "delete"
    /\ delPos <= Len(records)
    /\ Deletable(records[delPos])
    /\ \E kind \in Kinds :
         LET r == MakeRequest(kind)
             existing == records[delPos] IN
         /\ calls' = Append(calls, LogEntry("delete", kind, existing.id, None, r.attempts))
         /\ IF CallFailed(r)
            THEN /\ Except(result, IF r.raised THEN r.error ELSE "delete failed")
                 /\ UNCHANGED <<deleted, delPos>>
            ELSE /\ deleted' = Append(deleted, DeletedSummary(existing))
                 /\ delPos' = delPos + 1
                 /\ UNCHANGED <<result, pc>>
    /\ UNCHANGED <<profile, clock, domains, delete_types, index, results, records,
                   record_requests, reqPos, progress, completed>>
    /\ UNCHANGED notBulk

\* line 109, reached when the loop over records ends
DeleteDone ==
    /\ pc = "delete"
    /\ delPos > Len(records)
    /\ result' = [result EXCEPT !.deleted_records = deleted]
    /\ pc' = "generate"
    /\ UNCHANGED <<profile, clock, domains, delete_types, index, results, records, delPos,
                   deleted, record_requests, reqPos, calls, progress, completed>>
    /\ UNCHANGED notBulk

\* mutant: an empty template is applied like any other
NoRecordsAccepted(requests) == FALSE
\* line 114
NoRecords(requests) == requests = <<>>

\* lines 111-115: the generator, and the check for an empty template
Generate ==
    /\ pc = "generate"
    /\ \E g \in GeneratorOutcomes :
         IF g.raised
         THEN /\ calls' = Append(calls, LogEntry("generate", "RAISE", 0, None, 0))
              /\ Except(result, "generator raised")
              /\ UNCHANGED <<record_requests, reqPos>>
         ELSE /\ calls' = Append(calls, LogEntry("generate",
                                 IF g.records = <<>> THEN "EMPTY" ELSE "OK", 0, None, 0))
              /\ IF NoRecords(g.records)
                 THEN /\ Except([result EXCEPT !.metadata = g.metadata],
                                "no records to create")
                      /\ UNCHANGED <<record_requests, reqPos>>
                 ELSE /\ result' = [result EXCEPT !.metadata = g.metadata]
                      /\ record_requests' = g.records
                      /\ reqPos' = 1
                      /\ pc' = "create"
    /\ UNCHANGED <<profile, clock, domains, delete_types, index, results, records, delPos,
                   deleted, progress, completed>>
    /\ UNCHANGED notBulk

\* mutant: the newest record is put first
CreatedAfterFront(created, request) == <<CreatedSummary(request)>> \o created
\* lines 131-137
CreatedAfter(created, request) == Append(created, CreatedSummary(request))

\* lines 117-137: one create_dns_record call
CreateStep ==
    /\ pc = "create"
    /\ reqPos <= Len(record_requests)
    /\ \E kind \in Kinds :
         LET r == MakeRequest(kind)
             request == record_requests[reqPos] IN
         /\ calls' = Append(calls, LogEntry("create", kind, reqPos,
                CreateData(request.type, request.content, request.name,
                           ClampTtl(request)).ttl, r.attempts))
         /\ IF CallFailed(r)
            THEN /\ Except(result, IF r.raised THEN r.error ELSE "API error")
                 /\ UNCHANGED reqPos
            ELSE /\ result' = [result EXCEPT
                                 !.created_records = CreatedAfter(@, request)]
                 /\ reqPos' = reqPos + 1
                 /\ UNCHANGED pc
    /\ UNCHANGED <<profile, clock, domains, delete_types, index, results, records, delPos,
                   deleted, record_requests, progress, completed>>
    /\ UNCHANGED notBulk

\* line 139
Succeed ==
    /\ pc = "create"
    /\ reqPos > Len(record_requests)
    /\ result' = [result EXCEPT !.success = TRUE]
    /\ pc' = "append"
    /\ UNCHANGED <<profile, clock, domains, delete_types, index, results, records, delPos,
                   deleted, record_requests, reqPos, calls, progress, completed>>
    /\ UNCHANGED notBulk

\* lines 143-144, and the step of the for loop
\* mutant: the count of the domain's first event is repeated
ProgressAfterStale(idx, n) == <<idx - 1, n>>
\* line 144
ProgressAfter(idx, n) == <<idx, n>>

AppendResult ==
    /\ pc = "append"
    /\ results' = ResultsAfter(results, result)
    /\ progress' = Append(progress, ProgressAfter(index, total))
    /\ index' = index + 1
    /\ pc' = "loop"
    /\ UNCHANGED <<profile, clock, domains, delete_types, result, records, delPos, deleted,
                   record_requests, reqPos, calls, completed>>
    /\ UNCHANGED notBulk

\* line 146
Complete ==
    /\ pc = "loop"
    /\ index > total
    /\ completed' = Append(completed, results)
    /\ pc' = "done"
    /\ UNCHANGED <<profile, clock, domains, delete_types, index, result, results, records,
                   delPos, deleted, record_requests, reqPos, calls, progress>>
    /\ UNCHANGED notBulk

NextBulk ==
    \/ Start \/ BeginDomain \/ Fetch \/ WriteBackup \/ DeleteSkip \/ DeleteStep
    \/ DeleteDone \/ Generate \/ CreateStep \/ Succeed \/ AppendResult \/ Complete

\* the worker as constructed (lines 36-54), before run() is called
InitBulkLocals ==
    /\ pc = "init"
    /\ index = 1
    /\ result = NewResult("")
    /\ results = <<>>
    /\ records = <<>>
    /\ delPos = 1
    /\ deleted = <<>>
    /\ record_requests = <<>>
    /\ reqPos = 1
    /\ calls = <<>>
    /\ progress = <<>>
    /\ completed = <<>>
    /\ clock = 0
\* no check_domain_ns call in this behaviour
NsOff ==
    /\ nsPc = "off"
    /\ nsDomain = ""
    /\ attempt = 0
    /\ retry_delay = 0
    /\ nsAttempts = <<>>
    /\ sleeps = <<>>
    /\ nsReturn = None

\* a run over a list of up to MaxDomains domains, in a plain environment
InitWide ==
    /\ profile = "wide"
    /\ \E n \in 0..MaxDomains : domains = DomainList(n)
    /\ delete_types \in {{}, {"TXT"}}
    /\ InitBulkLocals
    /\ NsOff
    /\ AuditOff
    /\ GatewayOff
    /\ TemplateOff
\* a run over one domain, in the full environment
InitDeep ==
    /\ profile = "deep"
    /\ domains = DomainList(1)
    /\ delete_types \in {{}, {"TXT"}, {"TXT", "A"}}
    /\ InitBulkLocals
    /\ NsOff
    /\ AuditOff
    /\ GatewayOff
    /\ TemplateOff

\* a wide run during which the clock may advance
InitBackups ==
    /\ profile = "backups"
    /\ \E n \in 0..MaxDomains : domains = DomainList(n)
    /\ delete_types \in {{}, {"TXT"}}
    /\ InitBulkLocals
    /\ NsOff
    /\ AuditOff
    /\ GatewayOff
    /\ TemplateOff

SpecBulk == InitWide /\ [][NextBulk]_vars
SpecBulkBackups == InitBackups /\ [][NextBulk]_vars
SpecBulkDeep == InitDeep /\ [][NextBulk]_vars

(********************* DomainNSWorker.check_domain_ns **********************)
max_retries == 3
retry_delay_start == 2
porkbun_ns == {"curitiba.ns.porkbun.com", "fortaleza.ns.porkbun.com",
               "maceio.ns.porkbun.com", "salvador.ns.porkbun.com"}
\* nameserver lists a getNs answer can carry
NsLists ==
    {<<"curitiba.ns.porkbun.com", "fortaleza.ns.porkbun.com",
       "maceio.ns.porkbun.com", "salvador.ns.porkbun.com">>,
     <<"curitiba.ns.porkbun.com", "fortaleza.ns.porkbun.com",
       "maceio.ns.porkbun.com", "ns1.example.net">>,
     <<>>}
\* what one requests.post of check_domain_ns can meet
NsRetryable == {"HTTP503", "TIMEOUT"}
NsResponses ==
    {[kind |-> "OK_SUCCESS", ns |-> l] : l \in NsLists}
    \cup {[kind |-> k, ns |-> <<>>] :
            k \in {"OK_NOT_SUCCESS", "OK_BAD_JSON", "HTTP_OTHER", "EXCEPTION"} \cup NsRetryable}

\* mutant: external only when no returned hostname is a default one
IsExternalAll(ns_list) ==
    ns_list # <<>> /\ \A k \in 1..Len(ns_list) : ns_list[k] \notin porkbun_ns
\* line 75-77
IsExternal(ns_list) == \E k \in 1..Len(ns_list) : ns_list[k] \notin porkbun_ns
\* mutant: no doubling
DelayAfter503Constant(delay) == delay
\* lines 91-92: the backoff after an HTTP 503
DelayAfter503(delay) == delay * 2
\* lines 103-104: the backoff after a timeout sleeps, and leaves retry_delay alone
DelayAfterTimeout(delay) == delay
\* lines 90 and 102
MayRetry(att) == att < max_retries - 1

\* one iteration of the for loop of lines 65-108 on answer `resp`:
\* whether the function returns, its value, the sleep taken, the new retry_delay
AttemptOutcome(domain, resp, att, delay) ==
    CASE resp.kind = "OK_SUCCESS" ->
           [next |-> "return",
            value |-> <<[domain |-> domain, nameservers |-> resp.ns,
                         is_external |-> IsExternal(resp.ns)]>>,
            sleep |-> <<>>, retry_delay |-> delay]
      [] resp.kind = "OK_NOT_SUCCESS" ->  \* the if of line 70 has no else: the loop goes on
           [next |-> "continue", value |-> None, sleep |-> <<>>, retry_delay |-> delay]
      [] resp.kind = "HTTP503" ->
           IF MayRetry(att)
           THEN [next |-> "continue", value |-> None, sleep |-> <<delay>>,
                 retry_delay |-> DelayAfter503(delay)]
           ELSE [next |-> "return", value |-> None, sleep |-> <<>>, retry_delay |-> delay]
      [] resp.kind = "TIMEOUT" ->
           IF MayRetry(att)
           THEN [next |-> "continue", value |-> None, sleep |-> <<delay>>,
                 retry_delay |-> DelayAfterTimeout(delay)]
           ELSE [next |-> "return", value |-> None, sleep |-> <<>>, retry_delay |-> delay]
      [] OTHER ->   \* another HTTP status (line 97), or another exception (line 106)
           [next |-> "return", value |-> None, sleep |-> <<>>, retry_delay |-> delay]

\* lines 54-63
NsStart ==
    /\ nsPc = "idle"
    /\ \E d \in {DomainAt(1), DomainAt(2)} : nsDomain' = d
    /\ attempt' = 0
    /\ retry_delay' = retry_delay_start
    /\ nsPc' = "attempt"
    /\ UNCHANGED <<nsAttempts, sleeps, nsReturn>>
    /\ UNCHANGED notNS

\* lines 65-108: one attempt
NsAttempt ==
    /\ nsPc = "attempt"
    /\ attempt < max_retries
    /\ \E resp \in NsResponses :
         LET o == AttemptOutcome(nsDomain, resp, attempt, retry_delay) IN
         /\ nsAttempts' = Append(nsAttempts, resp.kind)
         /\ sleeps' = sleeps \o o.sleep
         /\ retry_delay' = o.retry_delay
         /\ IF o.next = "return"
            THEN /\ nsReturn' = o.value
                 /\ nsPc' = "done"
                 /\ UNCHANGED attempt
            ELSE /\ attempt' = attempt + 1
                 /\ UNCHANGED <<nsReturn, nsPc>>
    /\ UNCHANGED nsDomain
    /\ UNCHANGED notNS

\* line 110: the loop ran out
NsLoopEnd ==
    /\ nsPc = "attempt"
    /\ attempt >= max_retries
    /\ nsReturn' = None
    /\ nsPc' = "done"
    /\ UNCHANGED <<nsDomain, attempt, retry_delay, nsAttempts, sleeps>>
    /\ UNCHANGED notNS

NextNS == NsStart \/ NsAttempt \/ NsLoopEnd

\* no bulk run in this behaviour
BulkOff ==
    /\ profile = "none"
    /\ domains = <<>>
    /\ delete_types = {}
    /\ pc = "off"
    /\ index = 1
    /\ result = NewResult("")
    /\ results = <<>>
    /\ records = <<>>
    /\ delPos = 1
    /\ deleted = <<>>
    /\ record_requests = <<>>
    /\ reqPos = 1
    /\ calls = <<>>
    /\ progress = <<>>
    /\ completed = <<>>
    /\ clock = 0
InitNS ==
    /\ BulkOff
    /\ AuditOff
    /\ GatewayOff
    /\ TemplateOff
    /\ nsPc = "idle"
    /\ nsDomain = ""
    /\ attempt = 0
    /\ retry_delay = 0
    /\ nsAttempts = <<>>
    /\ sleeps = <<>>
    /\ nsReturn = None

SpecNS == InitNS /\ [][NextNS]_vars

\* either worker, each in behaviours of its own
SpecWorkers == (InitDeep \/ InitNS) /\ [][NextBulk \/ NextNS]_vars

(************** DomainNSWorker.start_check / check_all_domains **************)
batch_size == BatchSize
Min(a, b) == IF a <= b THEN a ELSE b

\* one whole check_domain_ns call on the answers `script`, attempt by attempt
RECURSIVE RunAttempts(_, _, _, _)
RunAttempts(domain, script, att, delay) ==
    IF att >= max_retries THEN None
    ELSE LET o == AttemptOutcome(domain, script[att + 1], att, delay) IN
         IF o.next = "return" THEN o.value
         ELSE RunAttempts(domain, script, att + 1, o.retry_delay)
check_domain_ns(domain, script) == RunAttempts(domain, script, 0, retry_delay_start)
\* what a pool task running check_domain_ns(domain) can return
CheckResults ==
    [d \in {DomainAt(1), DomainAt(2)} |->
        {check_domain_ns(d, s) : s \in [1..max_retries -> NsResponses]}]

\* load_config, lines 38 and 43: no file, or a file that cannot be parsed
DefaultConfig ==
    [last_check |-> None, external_ns_domains |-> <<>>, check_history |-> <<>>]
\* the file an earlier run left behind
EarlierConfig ==
    [last_check |-> <<0>>,
     external_ns_domains |->
        <<[domain |-> "old.com", nameservers |-> <<"ns1.example.net">>]>>,
     check_history |-> <<>>]
\* lines 162-166
NewConfig(t, external_ns_domains) ==
    [last_check |-> <<t>>, external_ns_domains |-> external_ns_domains,
     check_history |-> <<>>]
\* save_config, lines 45-52: the write succeeds; mkdir or open raises and the
\* file stays; the write raises after open(.., 'w') truncated the file.  The
\* exception is logged and swallowed.
SaveOutcomes == {"written", "unwritten", "truncated"}
save_config(old, config, outcome) ==
    CASE outcome = "written" -> config
      [] outcome = "unwritten" -> old
      [] OTHER -> DefaultConfig

Signal(sig, cur, tot, message, list) ==
    [sig |-> sig, current |-> cur, total |-> tot, message |-> message, list |-> list]
Emit(t, s) == emitted' = [emitted EXCEPT ![t] = Append(@, s)]
Goto(t, p) == auPc' = [auPc EXCEPT ![t] = p]

\* lines 178-185: start_check
StartCheck ==
    \E t \in Threads :
        /\ auPc[t] = "idle"
        /\ IF ~credentials
           THEN /\ Emit(t, Signal("error_occurred", 0, 0, "API credentials not set", <<>>))
                /\ Goto(t, "returned")
           ELSE /\ Goto(t, "guard")
                /\ UNCHANGED emitted
        /\ UNCHANGED <<is_checking, credentials, cache, auArgs, auLocals, saves>>
        /\ UNCHANGED notAudit

\* lines 114-115: the test of is_checking
Guard ==
    \E t \in Threads :
        /\ auPc[t] = "guard"
        /\ IF is_checking THEN Goto(t, "returned") ELSE Goto(t, "set")
        /\ UNCHANGED <<is_checking, credentials, cache, auArgs, auLocals, emitted, saves>>
        /\ UNCHANGED notAudit

\* lines 117-120: the flag is set by a statement of its own, no lock is held
SetChecking ==
    \E t \in Threads :
        /\ auPc[t] = "set"
        /\ is_checking' = TRUE
        /\ auLocals' = [auLocals EXCEPT ![t] =
               [external_ns_domains |-> <<>>, total |-> Len(auArgs[t]), current |-> 0,
                i |-> 0, futures |-> <<>>, checked |-> <<>>]]
        /\ Goto(t, "batch")
        /\ UNCHANGED <<credentials, cache, auArgs, emitted, saves>>
        /\ UNCHANGED notAudit

\* mutant: everything that is left goes to the pool at once
BatchAllRest(i, n) == (i + 1)..n
\* line 125: the positions of domains[i:i + batch_size]
Batch(i, n) == (i + 1)..Min(i + batch_size, n)

\* lines 124-131: the next batch is handed to the pool
SubmitBatch ==
    \E t \in Threads :
        LET l == auLocals[t] IN
        /\ auPc[t] = "batch"
        /\ l.i < l.total
        /\ auLocals' = [auLocals EXCEPT ![t].futures =
               [k \in Batch(l.i, l.total) |->
                   [state |-> "running", value |-> None]]]
        /\ Goto(t, "collect")
        /\ UNCHANGED <<is_checking, credentials, cache, auArgs, emitted, saves>>
        /\ UNCHANGED notAudit

\* line 129: executor.submit raises (no thread can be started)
SubmitFails ==
    \E t \in Threads :
        /\ auPc[t] = "batch"
        /\ auLocals[t].i < auLocals[t].total
        /\ Goto(t, "except")
        /\ UNCHANGED <<is_checking, credentials, cache, auArgs, auLocals, emitted, saves>>
        /\ UNCHANGED notAudit

\* line 124: the range is exhausted
LoopDone ==
    \E t \in Threads :
        /\ auPc[t] = "batch"
        /\ auLocals[t].i >= auLocals[t].total
        /\ Goto(t, "save")
        /\ UNCHANGED <<is_checking, credentials, cache, auArgs, auLocals, emitted, saves>>
        /\ UNCHANGED notAudit

\* a pool thread finishes check_domain_ns for the domain at position k
TaskFinish ==
    \E t \in Threads :
        /\ auPc[t] = "collect"
        /\ \E k \in DOMAIN auLocals[t].futures :
             /\ auLocals[t].futures[k].state = "running"
             /\ \E v \in CheckResults[auArgs[t][k]] :
                  auLocals' = [auLocals EXCEPT ![t].futures[k] =
                                  [state |-> "done", value |-> v]]
        /\ UNCHANGED <<is_checking, credentials, cache, auPc, auArgs, emitted, saves>>
        /\ UNCHANGED notAudit

\* mutant: a failed check is listed too
CollectedFailedToo(external_ns_domains, domain, value) ==
    IF value = None
    THEN Append(external_ns_domains, [domain |-> domain, nameservers |-> <<>>])
    ELSE IF value[1].is_external
         THEN Append(external_ns_domains,
                     [domain |-> domain, nameservers |-> value[1].nameservers])
         ELSE external_ns_domains
\* lines 143-147: what the result of a future adds to external_ns_domains
Collected(external_ns_domains, domain, value) ==
    IF value # None /\ value[1].is_external
    THEN Append(external_ns_domains,
                [domain |-> domain, nameservers |-> value[1].nameservers])
    ELSE external_ns_domains

\* mutant: only a successful check counts
NextCurrentOnSuccess(current, value) == IF value = None THEN current ELSE current + 1
\* line 136: the count advances before the result is looked at
NextCurrent(current, value) == current + 1

\* lines 134-155: as_completed yields a finished future
Collect ==
    \E t \in Threads :
        LET l == auLocals[t] IN
        /\ auPc[t] = "collect"
        /\ \E k \in DOMAIN l.futures :
             /\ l.futures[k].state = "done"
             /\ auLocals' = [auLocals EXCEPT
                    ![t].current = NextCurrent(l.current, l.futures[k].value),
                    ![t].external_ns_domains =
                        Collected(l.external_ns_domains, auArgs[t][k], l.futures[k].value),
                    ![t].futures[k].state = "collected",
                    ![t].checked = Append(@, [k |-> k, domain |-> auArgs[t][k],
                                              result |-> l.futures[k].value])]
             /\ Emit(t, Signal("progress_updated", NextCurrent(l.current, l.futures[k].value),
                                l.total, auArgs[t][k], <<>>))
        /\ UNCHANGED <<is_checking, credentials, cache, auPc, auArgs, saves>>
        /\ UNCHANGED notAudit

\* lines 157-159: every future of the batch was yielded
BatchDone ==
    \E t \in Threads :
        LET l == auLocals[t] IN
        /\ auPc[t] = "collect"
        /\ \A k \in DOMAIN l.futures : l.futures[k].state = "collected"
        /\ auLocals' = [auLocals EXCEPT ![t].i = l.i + batch_size]
        /\ Goto(t, "batch")
        /\ UNCHANGED <<is_checking, credentials, cache, auArgs, emitted, saves>>
        /\ UNCHANGED notAudit

\* lines 161-167
Save ==
    \E t \in Threads :
        /\ auPc[t] = "save"
        /\ \E outcome \in SaveOutcomes :
             /\ cache' = save_config(cache,
                                     NewConfig(t, auLocals[t].external_ns_domains), outcome)
             /\ saves' = Append(saves, [thread |-> t, outcome |-> outcome])
        /\ Goto(t, "emit")
        /\ UNCHANGED <<is_checking, credentials, auArgs, auLocals, emitted>>
        /\ UNCHANGED notAudit

\* lines 169-170
EmitCompleted ==
    \E t \in Threads :
        LET l == auLocals[t] IN
        /\ auPc[t] = "emit"
        /\ emitted' = [emitted EXCEPT ![t] = @ \o
               <<Signal("check_completed", 0, 0, "", l.external_ns_domains),
                 Signal("progress_updated", l.total, l.total, "Check completed!", <<>>)>>]
        /\ Goto(t, "finally")
        /\ UNCHANGED <<is_checking, credentials, cache, auArgs, auLocals, saves>>
        /\ UNCHANGED notAudit

\* mutant: the exception is logged and no signal is emitted
ErrorSignalsNone(message) == <<>>
\* line 174
ErrorSignals(message) == <<Signal("error_occurred", 0, 0, message, <<>>)>>

\* lines 172-174
AuditExcept ==
    \E t \in Threads :
        /\ auPc[t] = "except"
        /\ emitted' = [emitted EXCEPT ![t] = @ \o ErrorSignals("can't start new thread")]
        /\ Goto(t, "finally")
        /\ UNCHANGED <<is_checking, credentials, cache, auArgs, auLocals, saves>>
        /\ UNCHANGED notAudit

\* mutant: the flag is left as it is
FlagAfterRunKept(flag) == flag
\* line 176
FlagAfterRun(flag) == FALSE

\* lines 175-176
Finally ==
    \E t \in Threads :
        /\ auPc[t] = "finally"
        /\ is_checking' = FlagAfterRun(is_checking)
        /\ Goto(t, "returned")
        /\ UNCHANGED <<credentials, cache, auArgs, auLocals, emitted, saves>>
        /\ UNCHANGED notAudit

NextAudit ==
    \/ StartCheck \/ Guard \/ SetChecking \/ SubmitBatch \/ SubmitFails \/ LoopDone
    \/ TaskFinish \/ Collect \/ BatchDone \/ Save \/ EmitCompleted \/ AuditExcept
    \/ Finally

\* lines 187-190: what a reader of the cache file gets; load_config answers the
\* default configuration for a missing or unreadable file
get_cached_external_domains(config) == config.external_ns_domains

\* the worker as constructed (lines 18-25) and configured by its owner.  Either
\* thread 1 alone is about to audit a list of up to MaxAudit domains, or two
\* threads are each about to audit one domain on the same worker.
InitAudit ==
    /\ BulkOff
    /\ NsOff
    /\ GatewayOff
    /\ TemplateOff
    /\ is_checking = FALSE
    /\ credentials \in BOOLEAN
    /\ cache \in {DefaultConfig, EarlierConfig}
    /\ \/ /\ auPc = [t \in Threads |-> IF t = 1 THEN "idle" ELSE "off"]
          /\ \E n \in 0..MaxAudit :
               auArgs = [t \in Threads |-> IF t = 1 THEN DomainList(n) ELSE <<>>]
       \/ /\ auPc = [t \in Threads |-> "idle"]
          /\ auArgs = [t \in Threads |-> DomainList(1)]
    /\ auLocals = [t \in Threads |-> <<>>]
    /\ emitted = [t \in Threads |-> <<>>]
    /\ saves = <<>>

SpecAudit == InitAudit /\ [][NextAudit]_vars
\* the calling threads and the pool threads are scheduled, and every request
\* of check_domain_ns is bounded by its timeout: a step that can be taken is
\* taken in the end
FairSpecAudit == SpecAudit /\ WF_vars(NextAudit)

(******* PorkbunDNS.update_nameservers / is_using_porkbun_nameservers *******)
\* A string is a sequence of characters.
Vendor == <<"p", "o", "r", "k", "b", "u", "n", ".", "c", "o", "m">>
Whitespace == {" ", "\t"}
\* the entries a caller may pass: "", " \t", " NS.porkbun.com\t", "a.b", "host",
\* "ns.porkbun.com", "porkbun.com.ev.io", "ns.ex.io"
NsEntries ==
    {<<>>,
     <<" ", "\t">>,
     <<" ", "N", "S", ".">> \o Vendor \o <<"\t">>,
     <<"a", ".", "b">>,
     <<"h", "o", "s", "t">>,
     <<"n", "s", ".">> \o Vendor,
     Vendor \o <<".", "e", "v", ".", "i", "o">>,
     <<"n", "s", ".", "e", "x", ".", "i", "o">>}
\* a long list: padded, plain, blank and foreign entries in turn
LongPattern ==
    << <<" ", "N", "S", ".">> \o Vendor \o <<"\t">>,
       <<"n", "s", ".">> \o Vendor,
       <<" ", "\t">>,
       <<"n", "s", ".", "e", "x", ".", "i", "o">> >>
LongList(n) == [k \in 1..n |-> LongPattern[((k - 1) % Len(LongPattern)) + 1]]
MaxNameservers == 10
NsInputs ==
    SeqsUpTo(NsEntries, MaxNsList)
    \cup {LongList(n) : n \in MaxNameservers..(MaxNameservers + 4)}

\* str.strip()
RECURSIVE LStrip(_)
LStrip(s) == IF s # <<>> /\ Head(s) \in Whitespace THEN LStrip(Tail(s)) ELSE s
RECURSIVE RStrip(_)
RStrip(s) == IF s # <<>> /\ s[Len(s)] \in Whitespace
             THEN RStrip(SubSeq(s, 1, Len(s) - 1)) ELSE s
Strip(s) == RStrip(LStrip(s))
\* str.lower(), over the letters the entries use
LowerChar(c) == CASE c = "N" -> "n" [] c = "S" -> "s" [] OTHER -> c
Lower(s) == [k \in 1..Len(s) |-> LowerChar(s[k])]
\* the `in` operator on strings
Contains(s, sub) ==
    \E k \in 1..(Len(s) - Len(sub) + 1) : SubSeq(s, k, k + Len(sub) - 1) = sub

\* mutant: an entry is kept as soon as it is not blank
KeepsEntryNonBlank(ns) == ns # <<>> /\ Strip(ns) # <<>>
\* lines 253-256: the entry goes to valid_nameservers
KeepsEntry(ns) ==
    /\ ns # <<>> /\ Strip(ns) # <<>>
    /\ Contains(Strip(ns), <<".">>) /\ Len(Strip(ns)) > 3
\* mutant: the entry is kept as typed
CleanEntryVerbatim(ns) == ns
\* line 254
CleanEntry(ns) == Strip(ns)
\* lines 251-257
RECURSIVE ValidNameservers(_)
ValidNameservers(list) ==
    IF list = <<>> THEN <<>>
    ELSE (IF KeepsEntry(Head(list)) THEN <<CleanEntry(Head(list))>> ELSE <<>>)
         \o ValidNameservers(Tail(list))
\* line 274: valid_nameservers[:10]
FirstTen(valid) == SubSeq(valid, 1, Min(MaxNameservers, Len(valid)))

\* what the vendor can answer to the update; HTTP500 carries no JSON body
UpdateAnswers == AllKinds \cup {"HTTP500"}
GwResult(op, raised, error, status, returned) ==
    [op |-> op, raised |-> raised, error |-> error, status |-> status,
     returned |-> returned]

\* lines 240-298
UpdateNameservers ==
    /\ gwPc = "ready"
    /\ LET valid == ValidNameservers(nameservers) IN
       IF valid = <<>>
       THEN /\ gwResult' = GwResult("update_nameservers", TRUE, "nameservers empty", "", FALSE)
            /\ UNCHANGED gwRequests
       ELSE IF Len(valid) < 2
       THEN /\ gwResult' = GwResult("update_nameservers", TRUE, "at least 2 needed", "", FALSE)
            /\ UNCHANGED gwRequests
       ELSE \E kind \in UpdateAnswers :
              LET r == MakeRequest(kind) IN
              /\ gwRequests' = Append(gwRequests,
                     [method |-> "POST", endpoint |-> "/domain/updateNs",
                      ns |-> FirstTen(valid), attempts |-> r.attempts])
              /\ gwResult' =
                   IF r.raised /\ kind = "HTTP500"
                   THEN GwResult("update_nameservers", TRUE, "update failed (500)", "", FALSE)
                   ELSE GwResult("update_nameservers", r.raised, r.error, r.status, FALSE)
    /\ gwPc' = "done"
    /\ UNCHANGED nameservers
    /\ UNCHANGED notGateway

\* lines 323-328
is_using_porkbun_nameservers(list) ==
    IF \E k \in 1..Len(list) : ~Contains(Lower(list[k]), Vendor)
    THEN FALSE
    ELSE Len(list) > 0

IsUsingPorkbunNameservers ==
    /\ gwPc = "ready"
    /\ gwResult' = GwResult("is_using_porkbun_nameservers", FALSE, "", "",
                            is_using_porkbun_nameservers(nameservers))
    /\ gwPc' = "done"
    /\ UNCHANGED <<nameservers, gwRequests>>
    /\ UNCHANGED notGateway

NextGateway == UpdateNameservers \/ IsUsingPorkbunNameservers

\* a call is about to be made with some list of nameservers
InitGateway ==
    /\ BulkOff
    /\ NsOff
    /\ AuditOff
    /\ TemplateOff
    /\ gwPc = "ready"
    /\ nameservers \in NsInputs
    /\ gwRequests = <<>>
    /\ gwResult = <<>>

SpecGateway == InitGateway /\ [][NextGateway]_vars

(****** PorkbunDNS._make_request on ERROR answers, and its two callers *******)
\* A message is a sequence of words; `in` is the search for a run of words.
\* The words of the vendor's messages:
ApiClauses ==
    {<<"Invalid", "API", "keys">>,
     <<"Domain", "is", "not", "enabled", "for", "API", "access">>,
     <<"Domain", "is", "not", "opted", "in", "to", "API", "access">>,
     <<"Domain", "is", "Not", "Opted", "In", "to", "API", "access">>,
     <<"Domain", "not", "opted", "in">>,
     <<"Rate", "limit", "exceeded">>}
RECURSIVE Concat(_)
Concat(ss) == IF ss = <<>> THEN <<>> ELSE Head(ss) \o Concat(Tail(ss))
ApiMessages == {Concat(cs) : cs \in SeqsUpTo(ApiClauses, MaxClauses)}
\* what the vendor can answer: JSON with status SUCCESS, JSON with status ERROR
\* and a message (or none), or no usable answer at all
ApiAnswers ==
    {[kind |-> "SUCCESS", message |-> <<>>, has_message |-> FALSE],
     [kind |-> "ERROR", message |-> <<>>, has_message |-> FALSE],
     [kind |-> "HTTP503", message |-> <<>>, has_message |-> FALSE]}
    \cup {[kind |-> "ERROR", message |-> m, has_message |-> TRUE] : m \in ApiMessages}
LowerWord(w) ==
    CASE w = "Not" -> "not" [] w = "Opted" -> "opted" [] w = "In" -> "in"
      [] w = "API" -> "api" [] w = "Domain" -> "domain" [] w = "Invalid" -> "invalid"
      [] w = "Rate" -> "rate" [] w = "Request" -> "request" [] w = "Unknown" -> "unknown"
      [] OTHER -> w
LowerWords(s) == [k \in 1..Len(s) |-> LowerWord(s[k])]

\* the texts of the exceptions; the tokens in (ko) stand for the Korean wording
AuthErrorText == <<"API-auth-error(ko)">>
AccessDisabledText(domain) ==
    <<"domain(ko)", domain, "API-access-disabled(ko)", "remedy(ko)", domain>>
GenericErrorText(message) == <<"API-error(ko):">> \o message
\* lines 116-132: the exception raised for an answer whose status is ERROR
ApiError(domain, answer) ==
    LET error_message == IF answer.has_message THEN answer.message
                         ELSE <<"Unknown", "error">> IN
    IF Contains(error_message, <<"API", "keys">>)
    THEN AuthErrorText
    ELSE IF \/ Contains(error_message, <<"not", "enabled", "for", "API", "access">>)
            \/ Contains(error_message, <<"not", "opted", "in", "to", "API", "access">>)
         THEN AccessDisabledText(domain)
         ELSE GenericErrorText(error_message)
\* lines 90-150: the text of the exception _make_request raises, <<>> if none
RequestError(domain, answer) ==
    CASE answer.kind = "SUCCESS" -> <<>>
      [] answer.kind = "ERROR" -> ApiError(domain, answer)
      [] OTHER -> <<"Request", "failed:", "503">>

\* lines 182-206: the api_access entry of the dict returned
\* ("absent": the dict has no such key)
DomainInfoAccess(error_msg) ==
    IF error_msg = <<>> THEN "true"
    ELSE IF \/ Contains(error_msg, <<"not", "enabled", "for", "API", "access">>)
            \/ Contains(error_msg, <<"API-access-disabled(ko)">>)
         THEN "false"
         ELSE "absent"
\* lines 217-226
ApiAccessEnabled(error_msg) ==
    IF error_msg = <<>> THEN TRUE
    ELSE IF \/ Contains(error_msg, <<"API-access-disabled(ko)">>)
            \/ Contains(LowerWords(error_msg), <<"not", "opted", "in">>)
         THEN FALSE
         ELSE TRUE

ErrResult(op, domain, answer, error_msg, api_access, returned) ==
    [op |-> op, domain |-> domain, answer |-> answer, error |-> error_msg,
     api_access |-> api_access, returned |-> returned]

\* lines 173-206
GetDomainInfo ==
    /\ gwPc = "ready"
    /\ \E domain \in {DomainAt(1), DomainAt(2)}, answer \in ApiAnswers :
         LET error_msg == RequestError(domain, answer) IN
         /\ gwRequests' = Append(gwRequests,
                [method |-> "POST", endpoint |-> "/domain/getNs", domain |-> domain])
         /\ gwResult' = ErrResult("get_domain_info", domain, answer, error_msg,
                                  DomainInfoAccess(error_msg), FALSE)
    /\ gwPc' = "done"
    /\ UNCHANGED nameservers
    /\ UNCHANGED notGateway

\* lines 208-226
CheckDomainApiAccess ==
    /\ gwPc = "ready"
    /\ \E domain \in {DomainAt(1), DomainAt(2)}, answer \in ApiAnswers :
         LET error_msg == RequestError(domain, answer) IN
         /\ gwRequests' = Append(gwRequests,
                [method |-> "POST", endpoint |-> "/dns/retrieve", domain |-> domain])
         /\ gwResult' = ErrResult("check_domain_api_access", domain, answer, error_msg,
                                  "absent", ApiAccessEnabled(error_msg))
    /\ gwPc' = "done"
    /\ UNCHANGED nameservers
    /\ UNCHANGED notGateway

NextGatewayErrors == GetDomainInfo \/ CheckDomainApiAccess

InitGatewayErrors ==
    /\ BulkOff
    /\ NsOff
    /\ AuditOff
    /\ TemplateOff
    /\ gwPc = "ready"
    /\ nameservers = <<>>
    /\ gwRequests = <<>>
    /\ gwResult = <<>>

SpecGatewayErrors == InitGatewayErrors /\ [][NextGatewayErrors]_vars

(************** dns_templates.generate_tempererror_chain ********************)
\* A record name: "*", "_spf", or a random label.  A random label is one of a
\* few tokens standing for the strings _generate_random_label can return.
Wildcard == [kind |-> "*", id |-> 0]
SpfName == [kind |-> "_spf", id |-> 0]
Label(n) == [kind |-> "label", id |-> n]
LabelPool == {Label(n) : n \in 1..(MaxDepth + 1)}
\* the text of final_content: a sequence of words and whitespace characters
DefaultFinal == <<"v=spf1", " ", "include:_spf.AUTUMNWINDZ.COM", " ", "~all">>
FinalContents ==
    {DefaultFinal,
     <<"v=spf1", " ", "-all">>,
     <<" ", "v=spf1", " ", "-all", "\t">>,
     <<" ", "\t">>,
     <<>>}
TplInputs ==
    [domain : {DomainAt(1), DomainAt(2)}, chain_depth : (-1)..MaxDepth,
     final_content : FinalContents]

\* line 53
Depth(chain_depth) == Max(0, chain_depth)
\* mutant: no look at the labels drawn so far
AcceptsAny(candidate, labels) == TRUE
\* line 57
Accepts(candidate, labels) == \A k \in 1..Len(labels) : labels[k] # candidate
\* line 71
FinalContent(final_content) ==
    IF Strip(final_content) # <<>> THEN Strip(final_content) ELSE DefaultFinal
\* "v=spf1 redirect=<host>.<domain>."
Redirect(host, domain) ==
    [redirect |-> <<[host |-> host, domain |-> domain]>>, text |-> <<>>]
Text(content) == [redirect |-> <<>>, text |-> content]
Txt(name, content, notes) ==
    [type |-> "TXT", name |-> name, content |-> content, ttl |-> 600, notes |-> notes]
\* mutant: a label's record points at itself
HopTargetSelf(labels, idx) == labels[idx]
\* line 90
HopTarget(labels, idx) == labels[idx + 1]
\* lines 60-115
ChainRecords(domain, labels, final_content) ==
    <<Txt(Wildcard, Redirect(SpfName, domain), "Tempererror wildcard redirect")>>
    \o (IF labels # <<>>
        THEN <<Txt(SpfName, Redirect(labels[1], domain), "Tempererror chain hop")>>
             \o [idx \in 1..(Len(labels) - 1) |->
                    Txt(labels[idx], Redirect(HopTarget(labels, idx), domain),
                        "Tempererror chain hop")]
             \o <<Txt(labels[Len(labels)], Text(FinalContent(final_content)),
                      "Tempererror final stage")>>
        ELSE <<Txt(SpfName, Text(FinalContent(final_content)),
                   "Tempererror direct include")>>)
\* lines 117-123
Metadata(domain, chain_depth, labels, final_content) ==
    [template |-> "Tempererror SPF", tempererror_chain |-> labels,
     wildcard_target |-> [host |-> SpfName, domain |-> domain],
     hop_count |-> Depth(chain_depth), final_content |-> FinalContent(final_content)]

\* lines 55-58: one turn of the while loop
DrawLabel ==
    /\ tplPc = "ready"
    /\ Len(random_labels) < Depth(tplArgs.chain_depth)
    /\ \E candidate \in LabelPool :
         random_labels' = IF Accepts(candidate, random_labels)
                          THEN Append(random_labels, candidate)
                          ELSE random_labels
    /\ UNCHANGED <<tplPc, tplArgs, tplResult>>
    /\ UNCHANGED notTemplate

\* lines 60-124: the loop is over, the records are built and returned
BuildChain ==
    /\ tplPc = "ready"
    /\ Len(random_labels) >= Depth(tplArgs.chain_depth)
    /\ tplResult' =
         <<[records |-> ChainRecords(tplArgs.domain, random_labels, tplArgs.final_content),
            metadata |-> Metadata(tplArgs.domain, tplArgs.chain_depth, random_labels,
                                  tplArgs.final_content)]>>
    /\ tplPc' = "done"
    /\ UNCHANGED <<tplArgs, random_labels>>
    /\ UNCHANGED notTemplate

NextTemplate == DrawLabel \/ BuildChain

InitTemplate ==
    /\ BulkOff
    /\ NsOff
    /\ AuditOff
    /\ GatewayOff
    /\ tplPc = "ready"
    /\ tplArgs \in TplInputs
    /\ random_labels = <<>>
    /\ tplResult = <<>>

SpecTemplate == InitTemplate /\ [][NextTemplate]_vars

(***************************************************************************)
(*                          Properties: bulk run                           *)
(***************************************************************************)
\* the answers that make a step fail; a /dns/retrieve answer without a SUCCESS
\* status is not one: get_dns_records returns its (missing) records
EntryFailed(e) ==
    \/ e.kind \in {"API_ERROR", "HTTP503", "TIMEOUT", "FAIL", "RAISE", "EMPTY"}
    \/ e.kind = "NONSUCCESS" /\ e.op \in {"delete", "create"}
Mutating(e) == e.op \in {"delete", "create"}
IsDelete(e) == e.op = "delete"
IsCreate(e) == e.op = "create"
IsOkDelete(e) == e.op = "delete" /\ e.kind = "SUCCESS"
IsOkCreate(e) == e.op = "create" /\ e.kind = "SUCCESS"
\* the log entries of the domain at position i
Own(i) == SelectIdx(calls, i)
InDomain == pc \in {"fetch", "backup", "delete", "generate", "create", "append"}
\* the positions whose processing has begun, and the result of each
Begun == (1..Len(results)) \cup (IF InDomain THEN {index} ELSE {})
ResultOf(i) == IF i <= Len(results) THEN results[i] ELSE result

\* C1: every list emitted by completed has exactly one result per input domain,
\* at the position of that domain in the input list
C1_OnePerDomainInOrder ==
    \A k \in 1..Len(completed) :
        /\ Len(completed[k]) = Len(domains)
        /\ \A i \in 1..Len(domains) : completed[k][i].domain = domains[i]
C1_Witness ==
    /\ pc = "done"
    /\ Len(domains) = 3
    /\ completed = <<results>>
    /\ ~results[1].success
    /\ results[2].success
    /\ ~results[3].success

\* C2: a domain's result is a failure with one error message exactly when one of
\* its own steps failed; a domain none of whose steps failed is processed through
\* backup, deletes, generation and creates whatever happened to the others, and
\* the run ends with every domain processed
C2_FailureIsolated ==
    /\ \A i \in 1..Len(results) :
         LET own == Own(i) IN
         IF \E p \in 1..Len(own) : EntryFailed(own[p])
         THEN /\ ~results[i].success
              /\ Len(results[i].errors) = 1
         ELSE /\ results[i].success
              /\ results[i].errors = <<>>
              /\ own[1].op = "retrieve"
              /\ own[2].op = "backup"
              /\ results[i].backup_path = BackupPath(own[2].arg, domains[i])
              /\ \E p \in 1..Len(own) : own[p].op = "generate"
              /\ Len(results[i].created_records) = Len(SelectSeq(own, IsCreate))
              /\ Len(results[i].created_records) >= 1
              /\ Len(results[i].deleted_records) = Len(SelectSeq(own, IsDelete))
    /\ (pc = "append" /\ result.success) =>
         /\ Len(SelectSeq(Own(index), IsOkCreate)) = Len(record_requests)
         /\ delete_types # {} =>
              Len(SelectSeq(Own(index), IsOkDelete)) = Len(SelectSeq(records, Deletable))
    /\ pc = "done" => Len(results) = Len(domains)
C2_Witness ==
    /\ pc = "done"
    /\ Len(results) = 3
    /\ Own(2)[1].op = "retrieve" /\ EntryFailed(Own(2)[1])
    /\ ~results[2].success /\ Len(results[2].errors) = 1
    /\ results[1].success /\ results[1].deleted_records # <<>>
    /\ results[3].success /\ results[3].deleted_records # <<>>

\* C3: every delete or create call of a domain comes after that domain's records
\* were fetched and its backup written in this run; a domain whose fetch or
\* backup write failed gets no mutating call, and its result carries the error
C3_BackupBeforeMutate ==
    /\ \A p \in 1..Len(calls) :
         Mutating(calls[p]) =>
           \E q2 \in 1..(p - 1) :
              /\ calls[q2].idx = calls[p].idx /\ calls[q2].op = "backup"
              /\ calls[q2].kind = "OK"
              /\ \E q1 \in 1..(q2 - 1) :
                   /\ calls[q1].idx = calls[p].idx /\ calls[q1].op = "retrieve"
                   /\ calls[q1].kind \in {"SUCCESS", "NONSUCCESS"}
    /\ \A i \in Begun :
         LET own == Own(i) IN
         (\E p \in 1..Len(own) :
             /\ own[p].op \in {"retrieve", "backup"}
             /\ EntryFailed(own[p]))
         => /\ \A p \in 1..Len(own) : ~Mutating(own[p])
            /\ ResultOf(i).errors # <<>>
            /\ ~ResultOf(i).success
C3_Witness ==
    /\ pc = "done"
    /\ Len(results) >= 2
    /\ \E p \in 1..Len(Own(1)) : IsOkDelete(Own(1)[p])
    /\ \E p \in 1..Len(Own(1)) : IsOkCreate(Own(1)[p])
    /\ Len(Own(2)) = 2 /\ Own(2)[2].op = "backup" /\ Own(2)[2].kind = "FAIL"
    /\ results[2].errors = <<"backup write failed">>

\* C4: when a deletion fails part-way, deleted_records holds every deletion that
\* succeeded before the failure, and errors holds the message
C4_PartialDeletesRecorded ==
    \A i \in 1..Len(results) :
        (\E p \in 1..Len(Own(i)) : IsDelete(Own(i)[p]) /\ EntryFailed(Own(i)[p]))
        => /\ results[i].errors # <<>>
           /\ Len(results[i].deleted_records) = Len(SelectSeq(Own(i), IsOkDelete))
           /\ \A k \in 1..Len(results[i].deleted_records) :
                results[i].deleted_records[k].id = SelectSeq(Own(i), IsOkDelete)[k].arg

\* C5: within one domain the first failing step is the last call made for it (no
\* further delete or create, no compensating call), and created_records lists
\* exactly the records whose create call succeeded, a prefix of the template
C5_AbortOnFirstErrorNoRollback ==
    \A i \in Begun :
        LET own == Own(i)
            okCreates == SelectSeq(own, IsOkCreate) IN
        /\ \A p \in 1..Len(own) : EntryFailed(own[p]) => p = Len(own)
        /\ Len(ResultOf(i).created_records) = Len(okCreates)
        /\ \A k \in 1..Len(ResultOf(i).created_records) :
             /\ okCreates[k].arg = k
             /\ k <= Len(record_requests)
             /\ ResultOf(i).created_records[k] = CreatedSummary(record_requests[k])
C5_Witness ==
    /\ pc = "done"
    /\ Len(record_requests) = 2
    /\ Len(results[1].created_records) = 1
    /\ \E p \in 1..Len(Own(1)) : IsOkDelete(Own(1)[p])
    /\ Last(Own(1)).op = "create" /\ Last(Own(1)).kind = "NONSUCCESS"
    /\ ~results[1].success

\* C6: a run over a non-empty list always ends by emitting completed exactly once
C6_AlwaysCompletes ==
    /\ Len(completed) <= 1
    /\ (domains # <<>> /\ pc \in {"done", "crashed"}) => Len(completed) = 1

(***************************************************************************)
(*                       Properties: check_domain_ns                       *)
(***************************************************************************)
RECURSIVE SumSeq(_)
SumSeq(s) == IF s = <<>> THEN 0 ELSE Head(s) + SumSeq(Tail(s))

\* C7 as stated: in the audit and in the bulk-apply alike a transient failure is
\* retried, and surfaces only once the retries are exhausted
C7_TransientRetriedEverywhere ==
    /\ (nsPc = "done" /\ nsAttempts # <<>> /\ Last(nsAttempts) \in NsRetryable)
         => Len(nsAttempts) = max_retries
    /\ \A p \in 1..Len(calls) :
         (calls[p].kind \in Transient) => calls[p].attempts > 1
\* C7 as amended: the audit retries a timeout or an HTTP 503 and gives the domain
\* up only at the attempt cap; the bulk-apply issues one HTTP request per Gateway
\* call, and a timeout or HTTP 503 ends that domain at once with the error
C7_RetryInAuditOnly ==
    /\ (nsPc = "done" /\ nsAttempts # <<>> /\ Last(nsAttempts) \in NsRetryable)
         => /\ Len(nsAttempts) = max_retries
            /\ nsReturn = None
    /\ \A k \in 1..Len(nsAttempts) :
         (nsAttempts[k] \in NsRetryable /\ k < max_retries)
           => (nsPc = "attempt" \/ k < Len(nsAttempts))
    /\ \A p \in 1..Len(calls) :
         /\ calls[p].op \in {"retrieve", "delete", "create"} => calls[p].attempts = 1
         /\ calls[p].kind \in Transient =>
              /\ \A q \in (p + 1)..Len(calls) : calls[q].idx # calls[p].idx
              /\ ResultOf(calls[p].idx).errors = <<"Request failed">>
              /\ ~ResultOf(calls[p].idx).success
C7_Witness ==
    /\ pc = "done"
    /\ Len(calls) = 3
    /\ calls[3].op = "delete" /\ calls[3].kind = "HTTP503" /\ calls[3].attempts = 1
    /\ results[1].errors = <<"Request failed">>

\* C8: at most 3 attempts, and an attempt is followed by another only when it
\* ended in a timeout or an HTTP 503
C8_RetryOnlyOnTransient ==
    /\ Len(nsAttempts) <= max_retries
    /\ \A k \in 1..(Len(nsAttempts) - 1) : nsAttempts[k] \in NsRetryable

\* C9: HTTP 503, HTTP 503, then 200/SUCCESS: the check returns the domain's
\* classification, after sleeps of at least 2 + 4 = 6 seconds
C9_Retry503ThenSuccess ==
    (nsPc = "done" /\ nsAttempts = <<"HTTP503", "HTTP503", "OK_SUCCESS">>)
    => /\ nsReturn # None
       /\ nsReturn[1].domain = nsDomain
       /\ SumSeq(sleeps) >= 2 + 4
C9_Witness ==
    /\ nsPc = "done"
    /\ nsAttempts = <<"HTTP503", "HTTP503", "OK_SUCCESS">>
    /\ Len(nsReturn) = 1
    /\ nsReturn[1].is_external
    /\ sleeps = <<2, 4>>

\* C10: whether the retried attempts failed by timeout or by HTTP 503, the sleep
\* before the first retry is 2 s and the sleep before the second is 4 s
C10_ExponentialBackoff ==
    (\A k \in 1..Len(nsAttempts) : nsAttempts[k] # "OK_NOT_SUCCESS")
    => /\ Len(sleeps) >= 1 => sleeps[1] = 2
       /\ Len(sleeps) >= 2 => sleeps[2] = 4

(***************************************************************************)
(*                    Properties: nameserver audit run                     *)
(***************************************************************************)
\* the positions of a call that was accepted: it set is_checking and has not
\* yet left check_all_domains
RunPositions == {"batch", "collect", "save", "emit", "except", "finally"}
InRun(t) == auPc[t] \in RunPositions
\* the call of thread t was accepted at some time
Accepted(t) == auLocals[t] # <<>>
SignalsOf(t, sig) == SelectSeq(emitted[t], LAMBDA e : e.sig = sig)

\* C11: an invocation made while another one on the same worker is checking,
\* two threads racing included, returns without checking a domain, emitting a
\* signal or writing the cache: at most one audit run is in progress per
\* worker, and a thread past the is_checking test is alone in the section
\* that test guards.
C11_AtMostOneRun ==
    \A t \in Threads : \A u \in Threads \ {t} :
        /\ ~(InRun(t) /\ InRun(u))
        /\ InRun(t) /\ auPc[u] = "returned" /\ ~Accepted(u) => emitted[u] = <<>>

\* the list thread t emitted with check_completed, if it did
CompletedLists(t) == SignalsOf(t, "check_completed")
Completed(t) == CompletedLists(t) # <<>>
Failed(t) == SignalsOf(t, "error_occurred") # <<>>
Left(t) == auPc[t] \in {"finally", "returned"}

\* C12: a domain whose check fails is only omitted from the emitted list: the
\* run is not aborted by it (the except clause is reached only between batches,
\* when a batch cannot be submitted), every domain of the input is checked, and
\* a run that did not meet such an error ends with check_completed, whose list
\* holds no failed domain.
C12_FailedDomainOnlyOmitted ==
    \A t \in Threads : Accepted(t) =>
        LET l == auLocals[t] IN
        /\ auPc[t] = "except" => Len(l.checked) = l.i /\ l.i < l.total
        /\ Left(t) /\ ~Failed(t) => Completed(t)
        /\ Completed(t) =>
             /\ Len(l.checked) = l.total
             /\ {l.checked[j].k : j \in 1..Len(l.checked)} = 1..l.total
             /\ LET list == CompletedLists(t)[1].list IN
                \A e \in 1..Len(list) :
                    \E j \in 1..Len(l.checked) :
                        /\ l.checked[j].result # None
                        /\ l.checked[j].domain = list[e].domain
                        /\ l.checked[j].result[1].nameservers = list[e].nameservers
\* a completed run over two domains or more, one check failed, another one
\* found an external domain
C12_Witness ==
    LET l == auLocals[1] IN
    /\ Completed(1)
    /\ l.total >= 2
    /\ \E j \in 1..Len(l.checked) : l.checked[j].result = None
    /\ Len(CompletedLists(1)[1].list) >= 1

\* a successful check whose nameserver list holds a host outside the vendor's
\* default set
FoundExternal(c) ==
    /\ c.result # None
    /\ \E h \in {c.result[1].nameservers[k] : k \in 1..Len(c.result[1].nameservers)} :
          h \notin porkbun_ns
ExternalEntries(checked) ==
    LET sel == SelectSeq(checked, FoundExternal) IN
    [j \in 1..Len(sel) |->
        [domain |-> sel[j].domain, nameservers |-> sel[j].result[1].nameservers]]
FourDefaults ==
    <<"curitiba.ns.porkbun.com", "fortaleza.ns.porkbun.com",
      "maceio.ns.porkbun.com", "salvador.ns.porkbun.com">>
ThreeDefaultsOneForeign ==
    <<"curitiba.ns.porkbun.com", "fortaleza.ns.porkbun.com",
      "maceio.ns.porkbun.com", "ns1.example.net">>

\* C13: a successfully checked domain is classified external if and only if
\* at least one returned hostname is outside the 4-member default set (the 4
\* defaults: not external; 3 defaults and 1 foreign host: external), and the
\* list emitted by check_completed holds exactly the successfully checked
\* domains classified external, each with the full list returned.
C13_Classification ==
    \A t \in Threads : Accepted(t) =>
        LET l == auLocals[t] IN
        /\ \A j \in 1..Len(l.checked) :
              LET c == l.checked[j] IN
              c.result # None =>
                 /\ c.result[1].is_external <=> FoundExternal(c)
                 /\ c.result[1].nameservers = FourDefaults => ~c.result[1].is_external
                 /\ c.result[1].nameservers = ThreeDefaultsOneForeign
                       => c.result[1].is_external
        /\ l.external_ns_domains = ExternalEntries(l.checked)
        /\ Completed(t) => CompletedLists(t)[1].list = ExternalEntries(l.checked)
\* a completed run that met both the 4 defaults and 3 defaults with a foreign host
C13_Witness ==
    LET l == auLocals[1] IN
    /\ Completed(1)
    /\ \E j \in 1..Len(l.checked) :
          l.checked[j].result # None /\ l.checked[j].result[1].nameservers = FourDefaults
    /\ \E j \in 1..Len(l.checked) :
          /\ l.checked[j].result # None
          /\ l.checked[j].result[1].nameservers = ThreeDefaultsOneForeign
    /\ Len(CompletedLists(1)[1].list) = 1

SavesOf(t) == SelectSeq(saves, LAMBDA e : e.thread = t)

\* C14: the cache is overwritten wholesale at the completion of a run: when a
\* run has just completed, the persisted external_ns_domains is the list that
\* run emitted and check_history is empty; a run writes the cache once, at its
\* end, and at no other point.
C14_CacheIsTheCompletedRun ==
    \A t \in Threads : Accepted(t) =>
        /\ Completed(t) /\ auPc[t] = "finally" =>
              /\ cache.external_ns_domains = CompletedLists(t)[1].list
              /\ cache.check_history = <<>>
        /\ Len(SavesOf(t)) <= 1
        /\ SavesOf(t) # <<>> => auPc[t] \in {"emit", "finally", "returned"}

ProgressOf(t) == SignalsOf(t, "progress_updated")

\* C15: a progress event is emitted for every domain whose check completed,
\* failed ones included; the current counts of one run never decrease in
\* emission order, the event of the j-th completed domain carries current = j,
\* and the last event of a completed run carries current = total.
C15_ProgressMonotonic ==
    \A t \in Threads : Accepted(t) =>
        LET l == auLocals[t]
            p == ProgressOf(t) IN
        /\ \A j \in 1..Len(l.checked) :
              /\ p[j].current = j
              /\ p[j].total = l.total
              /\ p[j].message = l.checked[j].domain
        /\ \A j \in 1..(Len(p) - 1) : p[j].current <= p[j + 1].current
        /\ Len(p) = Len(l.checked) + (IF Completed(t) THEN 1 ELSE 0)
        /\ Completed(t) => p[Len(p)].current = l.total /\ Len(l.checked) = l.total
\* a completed run over three domains, one of them failed: four progress events
C15_Witness ==
    /\ Completed(1)
    /\ auLocals[1].total = 3
    /\ \E j \in 1..3 : auLocals[1].checked[j].result = None
    /\ Len(ProgressOf(1)) = 4

\* no call is between the is_checking test and the end of its run
Quiet == \A t \in Threads : auPc[t] \in {"off", "idle", "guard", "returned"}

\* C22: an accepted run always returns the worker to Idle: the run ends, on
\* completion and on an unrecoverable error alike, is_checking is false once
\* no run is under way, and a start_check that then tests the flag is accepted.
C22_BackToIdle ==
    /\ [](Quiet => ~is_checking)
    /\ \A t \in Threads : (auPc[t] = "set") ~> (auPc[t] = "returned")
    /\ <>[](~is_checking)
\* thread 1 is back from a run that met an error, thread 2 is about to test
\* the flag and finds it clear
C22_Witness ==
    /\ auPc[1] = "returned" /\ Accepted(1) /\ Failed(1)
    /\ auPc[2] = "guard"
    /\ ~is_checking

\* the positions of the input whose check was collected
CheckedPositions(l) == {l.checked[j].k : j \in 1..Len(l.checked)}
InFlight(l) == {k \in DOMAIN l.futures : l.futures[k].state = "running"}

\* C24: at most batch_size checks of a run are in flight; the checks of a
\* batch are submitted only when every check of the batches before it was
\* collected; every input domain is submitted exactly once per run.
C24_BatchesInSequence ==
    \A t \in Threads : Accepted(t) =>
        LET l == auLocals[t] IN
        /\ Cardinality(InFlight(l)) <= batch_size
        /\ Cardinality(DOMAIN l.futures) <= batch_size
        /\ \A j \in 1..Len(l.checked) : \A k \in 1..Len(l.checked) :
              j # k => l.checked[j].k # l.checked[k].k
        /\ auPc[t] = "collect" =>
              /\ \A k \in DOMAIN l.futures : k > l.i /\ k <= l.i + batch_size
              /\ \A k \in 1..l.i : k \in CheckedPositions(l)
              /\ \A k \in DOMAIN l.futures :
                    l.futures[k].state = "collected" <=> k \in CheckedPositions(l)
              /\ CheckedPositions(l) \subseteq 1..l.i \cup DOMAIN l.futures
        /\ InFlight(l) # {} => auPc[t] = "collect"
        /\ Completed(t) => CheckedPositions(l) = 1..l.total /\ Len(l.checked) = l.total
\* the second batch is in flight: the first one, batch_size checks, was collected
C24_Witness ==
    LET l == auLocals[1] IN
    /\ auPc[1] = "collect"
    /\ l.i = batch_size
    /\ InFlight(l) # {}
    /\ Len(l.checked) = batch_size

(***************************************************************************)
(*                     Properties: PorkbunDNS functions                    *)
(***************************************************************************)
\* the characters of an entry that are not whitespace
Inked(e) == {k \in 1..Len(e) : e[k] \notin Whitespace}
\* the entry without its surrounding whitespace
Trimmed(e) ==
    LET ink == Inked(e) IN
    IF ink = {} THEN <<>>
    ELSE SubSeq(e, CHOOSE k \in ink : \A m \in ink : k <= m,
                   CHOOSE k \in ink : \A m \in ink : m <= k)
\* valid: after trimming non-empty, with a dot, longer than 3
WellFormed(e) ==
    LET t == Trimmed(e) IN
    /\ t # <<>>
    /\ Len(t) > 3
    /\ \E k \in 1..Len(t) : t[k] = "."
ValidPositions(list) == {k \in 1..Len(list) : WellFormed(list[k])}
\* the j-th smallest member of a set of positions
NthOf(positions, j) ==
    CHOOSE k \in positions : Cardinality({m \in positions : m <= k}) = j
UpdateDone == gwPc = "done" /\ gwResult.op = "update_nameservers"

\* C16: update_nameservers called with fewer than 2 valid entries (after
\* trimming: non-empty, with a dot, longer than 3) raises and hands no request
\* to the network.
C16_TooFewRejectedOffline ==
    UpdateDone /\ Cardinality(ValidPositions(nameservers)) < 2
        => gwResult.raised /\ gwRequests = <<>>
\* a list of three entries, one of them valid, was rejected without a request
C16_Witness ==
    /\ UpdateDone
    /\ Len(nameservers) = 3
    /\ Cardinality(ValidPositions(nameservers)) = 1
    /\ Cardinality({k \in 1..Len(nameservers) : Inked(nameservers[k]) # {}}) = 3
    /\ gwResult.raised
    /\ gwRequests = <<>>

\* C17: for every accepted list, the ns array transmitted is the sequence of
\* the valid entries of the input, trimmed, case unchanged, in input order,
\* cut to the first 10: it has between 2 and 10 entries.
C17_TransmittedArray ==
    UpdateDone /\ Cardinality(ValidPositions(nameservers)) >= 2 =>
        /\ Len(gwRequests) = 1
        /\ LET sent == gwRequests[1].ns
               valid == ValidPositions(nameservers) IN
           /\ Len(sent) >= 2 /\ Len(sent) <= 10
           /\ Len(sent) = Min(10, Cardinality(valid))
           /\ \A j \in 1..Len(sent) : sent[j] = Trimmed(nameservers[NthOf(valid, j)])
\* more than 10 valid entries, blank ones between them, padded ones in upper
\* case among them: 10 were sent
C17_Witness ==
    /\ UpdateDone
    /\ Cardinality(ValidPositions(nameservers)) > 10
    /\ \E k \in 1..Len(nameservers) : Inked(nameservers[k]) = {}
    /\ Len(gwRequests) = 1
    /\ Len(gwRequests[1].ns) = 10
    /\ gwRequests[1].ns[1] = <<"N", "S", ".">> \o Vendor

\* the hostname, case and surrounding whitespace set aside, ends with porkbun.com
HasVendorSuffix(e) ==
    LET h == Lower(Trimmed(e)) IN
    Len(h) >= Len(Vendor) /\ SubSeq(h, Len(h) - Len(Vendor) + 1, Len(h)) = Vendor

\* C18: is_using_porkbun_nameservers returns true only if the list is not empty
\* and every entry ends with the vendor's suffix porkbun.com; it is false for
\* the empty list and false as soon as one entry fails to match the suffix.
C18_TrueOnlyIfAllHaveSuffix ==
    gwPc = "done" /\ gwResult.op = "is_using_porkbun_nameservers" =>
        /\ gwResult.returned =>
              /\ nameservers # <<>>
              /\ \A k \in 1..Len(nameservers) : HasVendorSuffix(nameservers[k])
        /\ nameservers = <<>> => ~gwResult.returned
        /\ (\E k \in 1..Len(nameservers) : ~HasVendorSuffix(nameservers[k]))
              => ~gwResult.returned

(***************************************************************************)
(*                     Properties: template generator                      *)
(***************************************************************************)
TplDone == tplPc = "done"
Generated == tplResult[1].records
Chain == tplResult[1].metadata.tempererror_chain
IsRedirectTo(rec, name) ==
    rec.content.redirect = <<[host |-> name, domain |-> tplArgs.domain]>>
\* the text the code settles on: final_content without its surrounding
\* whitespace, the default include when nothing is left
SettledFinal ==
    IF Trimmed(tplArgs.final_content) # <<>>
    THEN Trimmed(tplArgs.final_content)
    ELSE <<"v=spf1", " ", "include:_spf.AUTUMNWINDZ.COM", " ", "~all">>

UnbrokenChain ==
    /\ Generated[1].name = Wildcard
    /\ Generated[2].name = SpfName
    /\ \A j \in 1..(Len(Generated) - 1) : IsRedirectTo(Generated[j], Generated[j + 1].name)
    /\ Generated[Len(Generated)].content.redirect = <<>>
    /\ \A j \in 1..Len(Generated) : \A k \in 1..Len(Generated) :
          j # k => Generated[j].name # Generated[k].name
    /\ Chain = [j \in 1..(Len(Generated) - 2) |-> Generated[j + 2].name]
    /\ tplResult[1].metadata.hop_count = Len(Chain)

IsBackup(e) == e.op = "backup"
\* the path a logged backup write opened
PathOf(e) == BackupPath(e.arg, domains[e.idx])

\* C21: every backup write creates a new file: no backup write of a run, a
\* domain listed twice included, targets a path an earlier backup write
\* opened, so no earlier backup is overwritten.
C21_BackupPathsDistinct ==
    \A p \in 1..Len(calls) : \A q \in 1..Len(calls) :
        p < q /\ IsBackup(calls[p]) /\ IsBackup(calls[q])
            => PathOf(calls[p]) # PathOf(calls[q])

\* the error _make_request raised for the answer
RaisedAuth == gwResult.error = AuthErrorText
RaisedDisabled == gwResult.error = AccessDisabledText(gwResult.domain)
RaisedGeneric == gwResult.error = <<"API-error(ko):">> \o gwResult.answer.message
ErrorsDone == gwPc = "done" /\ gwResult.op \in {"get_domain_info", "check_domain_api_access"}
ReportsDisabled ==
    \/ gwResult.op = "get_domain_info" /\ gwResult.api_access = "false"
    \/ gwResult.op = "check_domain_api_access" /\ ~gwResult.returned

\* C23: for an answer with status ERROR the Gateway raises an authentication
\* error when the message mentions API keys, an API-access-disabled error
\* naming the domain when it says not enabled for / not opted in to API
\* access, a generic error carrying the message otherwise; get_domain_info
\* and check_domain_api_access report api access as disabled if and only if
\* the error raised was the API-access-disabled one.
C23_ErrorsTellApart ==
    ErrorsDone =>
        /\ gwResult.answer.kind = "ERROR" /\ gwResult.answer.has_message =>
              LET m == gwResult.answer.message IN
              IF Contains(m, <<"API", "keys">>) THEN RaisedAuth
              ELSE IF \/ Contains(m, <<"not", "enabled", "for", "API", "access">>)
                      \/ Contains(m, <<"not", "opted", "in", "to", "API", "access">>)
                   THEN RaisedDisabled
                   ELSE RaisedGeneric
        /\ ReportsDisabled <=> RaisedDisabled

\* C25: for the domain at position i the run emits progress (i-1, N) before
\* its first call and progress (i, N) after its result was appended, failed
\* or not; no call for domain i+1 comes before progress (i, N); the counts
\* never decrease and the last one, N, is emitted before completed.
C25_ProgressAroundEachDomain ==
    /\ \A j \in 1..Len(progress) :
          progress[j] = <<(IF j % 2 = 1 THEN (j - 1) \div 2 ELSE j \div 2), total>>
    /\ \A j \in 1..(Len(progress) - 1) : progress[j][1] <= progress[j + 1][1]
    /\ Len(progress) = 2 * Len(results) + (IF InDomain THEN 1 ELSE 0)
    /\ \A p \in 1..Len(calls) : 2 * calls[p].idx - 1 = Len(progress)
                                  \/ 2 * calls[p].idx <= Len(progress)
    /\ completed # <<>> /\ total >= 1 =>
          /\ Len(progress) = 2 * total
          /\ progress[Len(progress)] = <<total, total>>
\* a completed run over three domains, one failed, one succeeded
C25_Witness ==
    /\ pc = "done"
    /\ total = 3
    /\ Len(progress) = 6
    /\ \E i \in 1..3 : ~results[i].success
    /\ \E i \in 1..3 : results[i].success

\* C26: a domain whose template generator yields zero records is a failure:
\* its result has success=false and an error message, and no create call is
\* issued for it.
C26_EmptyTemplateIsAnError ==
    \A i \in Begun :
        (\E p \in 1..Len(Own(i)) : Own(i)[p].op = "generate" /\ Own(i)[p].kind = "EMPTY")
        => /\ ~ResultOf(i).success
           /\ ResultOf(i).errors = <<"no records to create">>
           /\ ResultOf(i).created_records = <<>>
           /\ \A p \in 1..Len(Own(i)) : ~IsCreate(Own(i)[p])
           /\ Last(Own(i)).op = "generate"
\* a finished run in which one domain had an empty template and another one
\* was created in full
C26_Witness ==
    /\ pc = "done"
    /\ \E i \in 1..Len(results) :
          /\ Last(Own(i)).op = "generate" /\ Last(Own(i)).kind = "EMPTY"
          /\ ~results[i].success
    /\ \E i \in 1..Len(results) : results[i].success

\* the number a string of decimal digits denotes
DigitValue(c) == CHOOSE d \in 0..9 : Digit(d) = c
RECURSIVE IntOf(_)
IntOf(digits) == IF digits = <<>> THEN 0
                 ELSE 10 * IntOf(SubSeq(digits, 1, Len(digits) - 1))
                      + DigitValue(digits[Len(digits)])
\* the create calls made so far, each with the descriptor it was made for
SentFor(p) == record_requests[calls[p].arg]

\* C27: every record sent for creation carries a ttl of at least 600 seconds:
\* the ttl sent is the larger of the descriptor's ttl and 600, and 600 when
\* the descriptor has no ttl.
C27_TtlAtLeast600 ==
    \A p \in 1..Len(calls) :
        IsCreate(calls[p]) =>
          /\ IntOf(calls[p].ttl) >= 600
          /\ SentFor(p).ttl = None => IntOf(calls[p].ttl) = 600
          /\ SentFor(p).ttl # None =>
                IntOf(calls[p].ttl) = (IF SentFor(p).ttl[1] >= 600
                                       THEN SentFor(p).ttl[1] ELSE 600)
\* two records were sent, one for a descriptor with a ttl of 300 seconds and
\* one for a descriptor without ttl
C27_Witness ==
    /\ pc = "done"
    /\ Len(record_requests) = 2
    /\ record_requests[1].ttl = <<300>>
    /\ record_requests[2].ttl = None
    /\ Len(SelectSeq(calls, IsOkCreate)) = 2
    /\ results[1].success

\* the entry created_records gets for a descriptor
EntryFor(entry, request) ==
    /\ entry.type = request.type
    /\ entry.content = request.content
    /\ entry.name = (IF request.name = "" THEN "@" ELSE request.name)
\* created is the first Len(created) descriptors of requests, in their order
PrefixOf(created, requests) ==
    /\ Len(created) <= Len(requests)
    /\ \A k \in 1..Len(created) : EntryFor(created[k], requests[k])

\* C28: in every result of a bulk run, success is true exactly when errors is
\* empty; errors holds at most one message; a success has its backup_path set
\* and one created_records entry per record of the template, in the same
\* order; a failure has created_records empty or a strict prefix of the
\* template's records.
C28_ResultWellFormed ==
    \A i \in 1..Len(results) :
        LET r == results[i] IN
        /\ r.success <=> (r.errors = <<>>)
        /\ Len(r.errors) <= 1
        /\ r.success =>
              /\ r.backup_path # None
              /\ Len(r.created_records) = Len(record_requests)
              /\ PrefixOf(r.created_records, record_requests)
        /\ ~r.success =>
              \/ r.created_records = <<>>
              \/ /\ Len(r.created_records) < Len(record_requests)
                 /\ PrefixOf(r.created_records, record_requests)
\* a domain whose template of two records was created in full, after a
\* deletion
C28_Witness ==
    /\ pc = "done"
    /\ results[1].success
    /\ Len(record_requests) = 2
    /\ Len(results[1].created_records) = 2
    /\ results[1].created_records[1].name = "*"
    /\ results[1].created_records[2].name = "@"
    /\ results[1].deleted_records # <<>>

\* C29: check_completed is emitted only after the cache write of that run, so
\* a handler that reads the cache when the signal arrives finds there the list
\* the signal carries, never what an earlier run left behind.
C29_HandlerReadsOwnList ==
    \A t \in Threads :
        auPc[t] = "emit" =>
          /\ SavesOf(t) # <<>>
          /\ get_cached_external_domains(cache) = auLocals[t].external_ns_domains

\* the terminal signals thread t emitted
Terminals(t) ==
    SelectSeq(emitted[t], LAMBDA e : e.sig \in {"check_completed", "error_occurred"})

\* C30: an accepted run emits exactly one terminal signal, check_completed or
\* error_occurred, never both; a run that emits error_occurred writes nothing
\* to the cache; a start_check without credentials emits error_occurred only,
\* checks no domain and leaves the cache and is_checking as they were.
C30_OneTerminalSignal ==
    /\ \A t \in Threads : Accepted(t) =>
          /\ Len(Terminals(t)) <= 1
          /\ auPc[t] = "returned" => Len(Terminals(t)) = 1
          /\ Terminals(t) # <<>> => auPc[t] \in {"finally", "returned"}
          /\ Failed(t) => SavesOf(t) = <<>> /\ ~Completed(t)
    /\ ~credentials =>
          /\ ~is_checking
          /\ saves = <<>>
          /\ cache \in {DefaultConfig, EarlierConfig}
          /\ \A t \in Threads :
                /\ ~Accepted(t)
                /\ auPc[t] \in {"off", "idle", "returned"}
                /\ auPc[t] = "returned" =>
                      emitted[t] = <<Signal("error_occurred", 0, 0,
                                            "API credentials not set", <<>>)>>
                /\ auPc[t] # "returned" => emitted[t] = <<>>
\* a run over three domains that met an error after its first batch was
\* collected: one error_occurred, the earlier cache still in place
C30_Witness ==
    /\ auPc[1] = "returned" /\ Accepted(1)
    /\ auLocals[1].total = 3 /\ Len(auLocals[1].checked) = 2
    /\ Failed(1) /\ Len(Terminals(1)) = 1
    /\ cache = EarlierConfig
    /\ ~is_checking

====
